---- MODULE Spec2Model ----
(***************************************************************************)
(* Model of migrate_db.py: the one-shot migration of the SQLite table      *)
(* p902_ozon_finance_realization (add column is_return, change the         *)
(* primary key) through a shadow table inside one transaction.             *)
(*                                                                         *)
(* Storage is modelled as two database images: `disk`, the committed       *)
(* database every other connection sees, and `view`, what the script's     *)
(* own connection sees (committed state plus its uncommitted changes).     *)
(* A database image holds the two tables the script names: `main`          *)
(* (p902_ozon_finance_realization) and `shadow`                            *)
(* (p902_ozon_finance_realization_new), and `others`, the index names      *)
(* taken by the other tables of the database.  A table is a record         *)
(*   [exists, cols, pk, rows, indexes]                                     *)
(* whose rows are functions from column names to values.  Of the 27        *)
(* columns of the real table the model keeps the three columns of the new  *)
(* primary key, one further NOT NULL column (document_type) and the added  *)
(* column is_return.  The script is single-writer: no other connection     *)
(* changes the database while it runs.                                     *)
(***************************************************************************)
EXTENDS Integers, Sequences, FiniteSets

\* ---------------------------------------------------------------- bounds
MaxRows == 2          \* most rows in the table before the first run
MaxRuns == 2          \* number of times the script is invoked

\* ----------------------------------------------------- value domains
PostingNumbers == {"p1", "p2"}
Skus           == {"s1"}
OperationTypes == {"sale", "return"}
DocumentTypes  == {"d1", "d2"}

\* Columns before the migration, and after it (CREATE TABLE, l.66-97).
OldColumns == {"posting_number", "sku", "operation_type", "document_type"}
NewColumns == OldColumns \cup {"is_return"}

\* PRIMARY KEY (posting_number, sku, operation_type), l.95.
NewPrimaryKey == {"posting_number", "sku", "operation_type"}

\* Primary keys the table may have before the migration.  The script does
\* not inspect the old key, so it is an input.
OldPrimaryKeys == { {"posting_number", "sku"},
                    {"posting_number", "document_type"} }

\* CREATE INDEX IF NOT EXISTS ..., l.139-142, in statement order.
IndexNames == << "idx_p902_accrual_date", "idx_p902_posting_number",
                 "idx_p902_connection_mp_ref", "idx_p902_posting_ref" >>

\* Index sets the table may carry before the migration.
OldIndexSets == { {}, {"idx_p902_accrual_date", "idx_p902_posting_number"} }

\* ------------------------------------------------------------- tables
NoTable == [exists |-> FALSE, cols |-> {}, pk |-> {}, rows |-> {},
            indexes |-> {}]

OldRows == [posting_number : PostingNumbers, sku : Skus,
            operation_type : OperationTypes, document_type : DocumentTypes]

MigratedRows == [posting_number : PostingNumbers, sku : Skus,
                 operation_type : OperationTypes,
                 document_type : DocumentTypes, is_return : {0, 1}]

\* Two different rows of `rows` agree on every column of the key `pk`.
ViolatesPrimaryKey(rows, pk) ==
    \E r1 \in rows : \E r2 \in rows :
        r1 # r2 /\ \A c \in pk : r1[c] = r2[c]

SmallSubsets(S) == { R \in SUBSET S : Cardinality(R) <= MaxRows }

\* Tables that SQLite can hold under the stable name before a run.
UnmigratedTables ==
    { t \in [exists : {TRUE}, cols : {OldColumns}, pk : OldPrimaryKeys,
             rows : SmallSubsets(OldRows), indexes : OldIndexSets] :
         ~ViolatesPrimaryKey(t.rows, t.pk) }

AlreadyMigratedTables ==
    { [exists |-> TRUE, cols |-> NewColumns, pk |-> NewPrimaryKey,
       rows |-> R, indexes |-> {}] :
         R \in { Q \in SmallSubsets(MigratedRows) :
                    ~ViolatesPrimaryKey(Q, NewPrimaryKey) } }

\* A table somebody left under the shadow name before the run.
LeftoverShadow ==
    [exists |-> TRUE, cols |-> NewColumns, pk |-> NewPrimaryKey,
     rows |-> { [posting_number |-> "p1", sku |-> "s1",
                 operation_type |-> "sale", document_type |-> "d1",
                 is_return |-> 1] },
     indexes |-> {}]

\* Index names that other tables of the database may already use.
OtherIndexSets == { {}, {"idx_p902_posting_ref"} }

InitialDatabases ==
    [main : {NoTable} \cup UnmigratedTables \cup AlreadyMigratedTables,
     shadow : {NoTable, LeftoverShadow},
     others : OtherIndexSets]

\* ------------------------------------------------- operator's response
NoInput == << "EOF" >>      \* input() raised EOFError: no line was read

Responses == { << "y", "e", "s" >>, << "y" >>, << "Y", "E", "S" >>,
               << "Y" >>, << "Y", "e", "s" >>, << "n", "o" >>, << >>,
               << " ", "y" >> }

\* str.lower() on the characters the responses use.
LowerChar(ch) ==
    CASE ch = "Y" -> "y"
      [] ch = "E" -> "e"
      [] ch = "S" -> "s"
      [] ch = "N" -> "n"
      [] ch = "O" -> "o"
      [] OTHER    -> ch

Lower(s) == [i \in 1..Len(s) |-> LowerChar(s[i])]

\* response.lower() in ['yes', 'y'], l.53.
AffirmativeExact(resp) == resp \in { << "y", "e", "s" >>, << "y" >> }

Affirmative(resp) == Lower(resp) \in { << "y", "e", "s" >>, << "y" >> }

\* ------------------------------------------------------ SQL statements
\* SELECT name FROM sqlite_master WHERE type='table' AND name=..., l.23-26.
TableExistsAlways(db) == TRUE

TableExists(db) == db.main.exists

\* any(col[1] == 'is_return' for col in columns), l.34-37.
HasIsReturnNever(t) == FALSE

HasIsReturn(t) == "is_return" \in t.cols

\* SELECT COUNT(*) FROM p902_ozon_finance_realization, l.47-48, l.152-153.
CountRows(db) == Cardinality(db.main.rows)

\* if count > 0, l.51.
NeedsConfirmationOverOne(n) == n > 1

NeedsConfirmation(n) == n > 0

\* The table CREATE TABLE p902_ozon_finance_realization_new makes, l.66-97.
NewTableKeyedOnReturn ==
    [exists |-> TRUE, cols |-> NewColumns,
     pk |-> NewPrimaryKey \cup {"is_return"}, rows |-> {}, indexes |-> {}]

NewTable == [exists |-> TRUE, cols |-> NewColumns, pk |-> NewPrimaryKey,
             rows |-> {}, indexes |-> {}]

\* One row of INSERT ... SELECT ..., 0 as is_return, ..., l.102-122.
CopyRowRetyped(r) ==
    [c \in NewColumns |-> IF c = "is_return" THEN 0
                          ELSE IF c = "document_type" THEN "d1" ELSE r[c]]

CopyRow(r) == [c \in NewColumns |-> IF c = "is_return" THEN 0 ELSE r[c]]

\* The rows INSERT ... SELECT ... FROM p902_ozon_finance_realization adds.
InsertSelectSkipsOne(rows) ==
    IF rows = {} THEN {}
    ELSE LET r == CHOOSE x \in rows : TRUE
         IN  { CopyRow(x) : x \in rows \ {r} }

InsertSelect(rows) == { CopyRow(r) : r \in rows }

\* The INSERT is rejected: UNIQUE constraint failed on the new primary key.
InsertFailsNever(rows) == FALSE

InsertFails(rows) == ViolatesPrimaryKey(InsertSelect(rows), NewPrimaryKey)

\* Names of all indexes of a database; index names are database-wide.
AllIndexes(db) == db.main.indexes \cup db.shadow.indexes \cup db.others

\* CREATE INDEX IF NOT EXISTS name ON p902_ozon_finance_realization (...).
CreateIndexIgnoringExisting(db, name) ==
    [db EXCEPT !.main.indexes = @ \cup {name}]

CreateIndexIfNotExists(db, name) ==
    IF name \in AllIndexes(db) THEN db
    ELSE [db EXCEPT !.main.indexes = @ \cup {name}]

\* The first k of the four CREATE INDEX statements, l.139-142.
RECURSIVE CreateIndexesUpTo(_, _)
CreateIndexesUpTo(db, k) ==
    IF k = 0 THEN db
    ELSE CreateIndexIfNotExists(CreateIndexesUpTo(db, k - 1), IndexNames[k])

\* conn.commit(), l.146: the connection's changes become the committed ones.
StorageAfterCommit(d, v) == [disk |-> v, view |-> v]

\* conn.rollback(), l.162; also what closing a connection with an open
\* transaction does: the uncommitted changes are discarded.
StorageAfterRollbackKeepsChanges(d, v) == [disk |-> v, view |-> v]

StorageAfterRollback(d, v) == [disk |-> d, view |-> d]

\* ---------------------------------------------------------------- state
VARIABLES
    disk,         \* committed database, as any other connection sees it
    view,         \* database as the script's connection sees it
    inTx,         \* the connection has an open transaction
    conn,         \* "none", "open" or "closed"
    closes,       \* number of conn.close() calls in this run
    pc,           \* position of the script
    count,        \* `count`, l.48
    copied,       \* `copied`, l.124
    final_count,  \* `final_count`, l.153
    response,     \* `response`, l.52
    retval,       \* value of a `return` that waits for the finally block
    raised,       \* an exception is propagating out of the inner handler
    result,       \* value main() returned: -1 while it runs
    failed,       \* first statement of this run that raised, or "none"
    log,          \* statements this run executed, in order
    pre,          \* committed database when this run started
    past,         \* per finished earlier run: its result, and did it commit
    runs          \* runs started so far

vars == << disk, view, inTx, conn, closes, pc, count, copied, final_count,
           response, retval, raised, result, failed, log, pre, past, runs >>

NoResponse == << "-" >>    \* nothing was asked

Init ==
    /\ disk \in InitialDatabases
    /\ view = disk
    /\ inTx = FALSE
    /\ conn = "none"
    /\ closes = 0
    /\ pc = "idle"
    /\ count = 0
    /\ copied = 0
    /\ final_count = 0
    /\ response = NoResponse
    /\ retval = -1
    /\ raised = FALSE
    /\ result = -1
    /\ failed = "none"
    /\ log = << >>
    /\ pre = disk
    /\ past = << >>
    /\ runs = 0

\* conn.commit() of this run has succeeded.
CommitDone == failed # "commit" /\ \E i \in DOMAIN log : log[i] = "commit"

\* except sqlite3.Error / except Exception of the outer try, l.173-178:
\* main() returns 1; the connection is not closed on this path.
OuterExcept(step) ==
    /\ result' = 1
    /\ failed' = step
    /\ pc' = "returned"

\* conn.close() followed by `return code`, l.28-29, l.41-42, l.55-56.
CloseAndReturn(code) ==
    /\ conn' = "closed"
    /\ closes' = closes + 1
    /\ result' = code
    /\ pc' = "returned"

\* --------------------------------------------------------------- actions
\* main() is entered and sqlite3.connect(DB_PATH) runs, l.13-20.
Connect ==
    /\ pc \in {"idle", "returned"}
    /\ runs < MaxRuns
    /\ runs' = runs + 1
    /\ pre' = disk
    /\ past' = IF pc = "returned"
               THEN Append(past, [result |-> result, committed |-> CommitDone])
               ELSE past
    /\ view' = disk
    /\ log' = << "connect" >>
    /\ count' = 0 /\ copied' = 0 /\ final_count' = 0
    /\ response' = NoResponse /\ retval' = -1 /\ raised' = FALSE
    /\ closes' = 0
    /\ \E ok \in BOOLEAN :
          IF ok
          THEN /\ conn' = "open"
               /\ pc' = "check_table"
               /\ result' = -1
               /\ failed' = "none"
          ELSE /\ conn' = "none"
               /\ OuterExcept("connect")
    /\ UNCHANGED << disk, inTx >>

\* The sqlite_master query and `if not table_exists`, l.23-31.
CheckTableExists ==
    /\ pc = "check_table"
    /\ \E ok \in BOOLEAN :
          IF ~ok
          THEN /\ OuterExcept("check_table")
               /\ log' = Append(log, "check_table")
               /\ UNCHANGED << conn, closes >>
          ELSE IF ~TableExists(view)
          THEN /\ CloseAndReturn(1)
               /\ log' = log \o << "check_table", "close" >>
               /\ UNCHANGED failed
          ELSE /\ pc' = "inspect"
               /\ log' = Append(log, "check_table")
               /\ UNCHANGED << conn, closes, result, failed >>
    /\ UNCHANGED << disk, view, inTx, count, copied, final_count, response,
                    retval, raised, pre, past, runs >>

\* PRAGMA table_info and `if has_is_return`, l.34-44.
CheckSchema ==
    /\ pc = "inspect"
    /\ \E ok \in BOOLEAN :
          IF ~ok
          THEN /\ OuterExcept("inspect")
               /\ log' = Append(log, "inspect")
               /\ UNCHANGED << conn, closes >>
          ELSE IF HasIsReturn(view.main)
          THEN /\ CloseAndReturn(0)
               /\ log' = log \o << "inspect", "close" >>
               /\ UNCHANGED failed
          ELSE /\ pc' = "count"
               /\ log' = Append(log, "inspect")
               /\ UNCHANGED << conn, closes, result, failed >>
    /\ UNCHANGED << disk, view, inTx, count, copied, final_count, response,
                    retval, raised, pre, past, runs >>

\* SELECT COUNT(*) and `if count > 0`, l.47-51.
CountRecords ==
    /\ pc = "count"
    /\ log' = Append(log, "count")
    /\ \E ok \in BOOLEAN :
          IF ~ok
          THEN /\ OuterExcept("count")
               /\ UNCHANGED count
          ELSE /\ count' = CountRows(view)
               /\ pc' = IF NeedsConfirmation(count') THEN "prompt"
                        ELSE "begin"
               /\ UNCHANGED << result, failed >>
    /\ UNCHANGED << disk, view, inTx, conn, closes, copied, final_count,
                    response, retval, raised, pre, past, runs >>

\* input(...) and `if response.lower() not in ['yes', 'y']`, l.52-58.
Confirm ==
    /\ pc = "prompt"
    /\ \E resp \in Responses \cup {NoInput} :
          /\ response' = resp
          /\ IF resp = NoInput
             THEN /\ OuterExcept("prompt")
                  /\ log' = Append(log, "prompt")
                  /\ UNCHANGED << conn, closes >>
             ELSE IF ~Affirmative(resp)
             THEN /\ CloseAndReturn(0)
                  /\ log' = log \o << "prompt", "decline", "close" >>
                  /\ UNCHANGED failed
             ELSE /\ pc' = "begin"
                  /\ log' = log \o << "prompt", "affirm" >>
                  /\ UNCHANGED << conn, closes, result, failed >>
    /\ UNCHANGED << disk, view, inTx, count, copied, final_count, retval,
                    raised, pre, past, runs >>

\* cursor.execute("BEGIN TRANSACTION;"), l.61.
BeginTransaction ==
    /\ pc = "begin"
    /\ log' = Append(log, "begin")
    /\ \E ok \in BOOLEAN :
          IF ~ok
          THEN /\ OuterExcept("begin")
               /\ UNCHANGED inTx
          ELSE /\ inTx' = TRUE
               /\ pc' = "create"
               /\ UNCHANGED << result, failed >>
    /\ UNCHANGED << disk, view, conn, closes, count, copied, final_count,
                    response, retval, raised, pre, past, runs >>

\* A statement of the inner try raised: control goes to `except Exception`.
InnerRaise(step) ==
    /\ pc' = "except"
    /\ failed' = step

\* CREATE TABLE p902_ozon_finance_realization_new (...), l.66-98.
CreateNewTableOverwrites ==
    /\ pc = "create"
    /\ log' = Append(log, "create")
    /\ \E ok \in BOOLEAN :
          IF ~ok
          THEN /\ InnerRaise("create")
               /\ UNCHANGED view
          ELSE /\ view' = [view EXCEPT !.shadow = NewTable]
               /\ pc' = "copy"
               /\ UNCHANGED failed
    /\ UNCHANGED << disk, inTx, conn, closes, count, copied, final_count,
                    response, retval, raised, result, pre, past, runs >>

CreateNewTable ==
    /\ pc = "create"
    /\ log' = Append(log, "create")
    /\ \E ok \in BOOLEAN :
          IF ~ok \/ view.shadow.exists
          THEN /\ InnerRaise("create")
               /\ UNCHANGED view
          ELSE /\ view' = [view EXCEPT !.shadow = NewTable]
               /\ pc' = "copy"
               /\ UNCHANGED failed
    /\ UNCHANGED << disk, inTx, conn, closes, count, copied, final_count,
                    response, retval, raised, result, pre, past, runs >>

\* INSERT INTO ..._new (...) SELECT ... and copied = cursor.rowcount,
\* l.102-125.  A rejected INSERT leaves no row behind.
CopyData ==
    /\ pc = "copy"
    /\ log' = Append(log, "copy")
    /\ \E ok \in BOOLEAN :
          IF ~ok \/ InsertFails(view.main.rows)
          THEN /\ InnerRaise("copy")
               /\ UNCHANGED << view, copied >>
          ELSE /\ view' = [view EXCEPT !.shadow.rows =
                                          @ \cup InsertSelect(view.main.rows)]
               /\ copied' = Cardinality(InsertSelect(view.main.rows))
               /\ pc' = "drop"
               /\ UNCHANGED failed
    /\ UNCHANGED << disk, inTx, conn, closes, count, final_count, response,
                    retval, raised, result, pre, past, runs >>

\* DROP TABLE p902_ozon_finance_realization, l.129-130.
DropOldTableCommitsFirst ==
    /\ pc = "drop"
    /\ log' = Append(log, "drop")
    /\ \E ok \in BOOLEAN :
          IF ~ok
          THEN /\ InnerRaise("drop")
               /\ UNCHANGED << view, disk, inTx >>
          ELSE /\ view' = [view EXCEPT !.main = NoTable]
               /\ disk' = view'
               /\ inTx' = FALSE
               /\ pc' = "rename"
               /\ UNCHANGED failed
    /\ UNCHANGED << conn, closes, count, copied, final_count, response,
                    retval, raised, result, pre, past, runs >>

DropOldTable ==
    /\ pc = "drop"
    /\ log' = Append(log, "drop")
    /\ \E ok \in BOOLEAN :
          IF ~ok
          THEN /\ InnerRaise("drop")
               /\ UNCHANGED view
          ELSE /\ view' = [view EXCEPT !.main = NoTable]
               /\ pc' = "rename"
               /\ UNCHANGED failed
    /\ UNCHANGED << disk, inTx, conn, closes, count, copied, final_count,
                    response, retval, raised, result, pre, past, runs >>

\* ALTER TABLE ..._new RENAME TO p902_ozon_finance_realization, l.134-135.
RenameNewTableThenCommit ==
    /\ pc = "rename"
    /\ \E ok \in BOOLEAN :
          IF ~ok \/ view.main.exists \/ ~view.shadow.exists
          THEN /\ InnerRaise("rename")
               /\ log' = Append(log, "rename")
               /\ UNCHANGED << view, disk, inTx >>
          ELSE /\ view' = [view EXCEPT !.main = view.shadow,
                                       !.shadow = NoTable]
               /\ disk' = view'
               /\ inTx' = FALSE
               /\ log' = log \o << "rename", "commit" >>
               /\ pc' = "index"
               /\ UNCHANGED failed
    /\ UNCHANGED << conn, closes, count, copied, final_count, response,
                    retval, raised, result, pre, past, runs >>

RenameNewTable ==
    /\ pc = "rename"
    /\ log' = Append(log, "rename")
    /\ \E ok \in BOOLEAN :
          IF ~ok \/ view.main.exists \/ ~view.shadow.exists
          THEN /\ InnerRaise("rename")
               /\ UNCHANGED view
          ELSE /\ view' = [view EXCEPT !.main = view.shadow,
                                       !.shadow = NoTable]
               /\ pc' = "index"
               /\ UNCHANGED failed
    /\ UNCHANGED << disk, inTx, conn, closes, count, copied, final_count,
                    response, retval, raised, result, pre, past, runs >>

\* The four CREATE INDEX IF NOT EXISTS statements, l.139-143; the first k
\* succeed, and when k < 4 the next one raises.
CreateIndexesIgnoringErrors ==
    /\ pc = "index"
    /\ log' = Append(log, "index")
    /\ \E k \in 0..Len(IndexNames) :
          /\ view' = CreateIndexesUpTo(view, k)
          /\ pc' = "commit"
          /\ failed' = IF k < Len(IndexNames) THEN "index" ELSE failed
    /\ UNCHANGED << disk, inTx, conn, closes, count, copied, final_count,
                    response, retval, raised, result, pre, past, runs >>

CreateIndexes ==
    /\ pc = "index"
    /\ log' = Append(log, "index")
    /\ \E k \in 0..Len(IndexNames) :
          /\ view' = CreateIndexesUpTo(view, k)
          /\ IF k < Len(IndexNames)
             THEN InnerRaise("index")
             ELSE /\ pc' = "commit"
                  /\ UNCHANGED failed
    /\ UNCHANGED << disk, inTx, conn, closes, count, copied, final_count,
                    response, retval, raised, result, pre, past, runs >>

\* conn.commit(), l.146-149.
CommitTransaction ==
    /\ pc = "commit"
    /\ log' = Append(log, "commit")
    /\ \E ok \in BOOLEAN :
          IF ~ok
          THEN /\ InnerRaise("commit")
               /\ UNCHANGED << disk, view, inTx >>
          ELSE /\ disk' = StorageAfterCommit(disk, view).disk
               /\ view' = StorageAfterCommit(disk, view).view
               /\ inTx' = FALSE
               /\ pc' = "final_count"
               /\ UNCHANGED failed
    /\ UNCHANGED << conn, closes, count, copied, final_count, response,
                    retval, raised, result, pre, past, runs >>

\* The final SELECT COUNT(*) and the comparison with count, l.152-159.
VerifyResult ==
    /\ pc = "final_count"
    /\ \E ok \in BOOLEAN :
          IF ~ok
          THEN /\ InnerRaise("final_count")
               /\ log' = Append(log, "final_count")
               /\ UNCHANGED final_count
          ELSE /\ final_count' = CountRows(view)
               /\ log' = log \o << "final_count", "compare" >>
               /\ pc' = "finally"
               /\ UNCHANGED failed
    /\ UNCHANGED << disk, view, inTx, conn, closes, count, copied, response,
                    retval, raised, result, pre, past, runs >>

\* except Exception: conn.rollback(); ...; return 1, l.161-165.  When the
\* rollback itself raises, that exception leaves the handler instead.
ExceptRollback ==
    /\ pc = "except"
    /\ log' = Append(log, "rollback")
    /\ pc' = "finally"
    /\ \E ok \in BOOLEAN :
          IF ~ok
          THEN /\ raised' = TRUE
               /\ UNCHANGED << disk, view, inTx, retval >>
          ELSE /\ disk' = StorageAfterRollback(disk, view).disk
               /\ view' = StorageAfterRollback(disk, view).view
               /\ inTx' = FALSE
               /\ retval' = 1
               /\ UNCHANGED raised
    /\ UNCHANGED << conn, closes, count, copied, final_count, response,
                    result, failed, pre, past, runs >>

\* finally: conn.close(), l.167-168, and then whichever applies: the
\* pending `return 1`, the outer handler's `return 1` (l.173-178) for a
\* propagating exception, or `return 0`, l.170-171.  Closing a connection
\* discards its open transaction.
FinallyClose ==
    /\ pc = "finally"
    /\ log' = Append(log, "close")
    /\ conn' = "closed"
    /\ closes' = closes + 1
    /\ disk' = IF inTx THEN StorageAfterRollback(disk, view).disk ELSE disk
    /\ view' = IF inTx THEN StorageAfterRollback(disk, view).view ELSE view
    /\ inTx' = FALSE
    /\ result' = IF raised \/ retval = 1 THEN 1 ELSE 0
    /\ pc' = "returned"
    /\ UNCHANGED << count, copied, final_count, response, retval, raised,
                    failed, pre, past, runs >>

Next ==
    \/ Connect
    \/ CheckTableExists
    \/ CheckSchema
    \/ CountRecords
    \/ Confirm
    \/ BeginTransaction
    \/ CreateNewTable
    \/ CopyData
    \/ DropOldTable
    \/ RenameNewTable
    \/ CreateIndexes
    \/ CommitTransaction
    \/ VerifyResult
    \/ ExceptRollback
    \/ FinallyClose

Spec == Init /\ [][Next]_vars

\* ------------------------------------------------------------ properties
LogHas(step) == \E i \in DOMAIN log : log[i] = step

\* The steps of the inner try that change the database.
SwapSteps == {"create", "copy", "drop", "rename", "index"}

\* The table existed without the column is_return when the run started.
Unmigrated == pre.main.exists /\ "is_return" \notin pre.main.cols

Project(r, cols) == [c \in cols |-> r[c]]

AllIndexNames == { IndexNames[i] : i \in DOMAIN IndexNames }

\* The committed table under the stable name is the complete target table
\* built from the pre-run one.
FullyNew ==
    /\ disk.main.exists
    /\ disk.main.cols = pre.main.cols \cup {"is_return"}
    /\ disk.main.pk = NewPrimaryKey
    /\ { Project(r, pre.main.cols) : r \in disk.main.rows } = pre.main.rows
    /\ Cardinality(disk.main.rows) = Cardinality(pre.main.rows)
    /\ disk.main.indexes = AllIndexNames \ pre.others
    /\ disk.others = pre.others
    /\ disk.shadow = pre.shadow

\* C1 as stated: when one of create-shadow, copy, drop, rename or
\* create-index fails in a run that opened the transaction, then after the
\* run returns the table under its original name is as before the run and
\* no table named p902_ozon_finance_realization_new exists.
C1_NoShadowAfterFailure ==
    (pc = "returned" /\ failed \in SwapSteps)
        => (disk.main = pre.main /\ ~disk.shadow.exists)

\* C1 amended: when one of those five steps fails, then after the run
\* returns the committed database is exactly the pre-run one: the original
\* table has its pre-run schema, rows and indexes, and a table of the
\* shadow name exists only if it existed before the run, unchanged.
C1_AtomicUnderFailure ==
    (pc = "returned" /\ failed \in SwapSteps)
        => (disk = pre /\ view = disk /\ ~inTx)

C1_Witness ==
    /\ pc = "returned"
    /\ failed = "index"
    /\ ~pre.shadow.exists
    /\ Cardinality(pre.main.rows) = 2
    /\ pre.main.indexes # {}

\* C2: at every moment of every run on an existing table the committed
\* database holds under the stable name either the complete pre-run table
\* or the complete target table with every row copied, never nothing and
\* never a partial copy; and until the commit has succeeded it is the
\* pre-run database, whatever the transaction has done so far.
C2_OldOrNewOnly ==
    pre.main.exists =>
        /\ disk.main.exists
        /\ disk = pre \/ (CommitDone /\ FullyNew)
        /\ ~CommitDone => disk = pre

C2_Witness ==
    /\ pc = "rename"
    /\ inTx
    /\ ~view.main.exists
    /\ Cardinality(view.shadow.rows) = 2
    /\ disk = pre

\* C3: when the table already has the column is_return, a run (whose
\* queries do not fail) returns 0, opens no transaction and changes
\* nothing; and every run after one that committed the migration finds the
\* column, so it takes that path.
C3_Idempotent ==
    /\ ("is_return" \in pre.main.cols /\ pc # "idle") =>
          /\ disk = pre
          /\ view = disk
          /\ ~inTx
          /\ ~LogHas("begin")
          /\ (pc = "returned" /\ failed = "none") => result = 0
    /\ \A i \in DOMAIN past :
          past[i].committed => "is_return" \in pre.main.cols

C3_Witness ==
    /\ Len(past) = 1
    /\ past[1].committed
    /\ pc = "returned"
    /\ result = 0
    /\ disk.main.rows # {}

\* C4: a run that commits leaves under the stable name exactly as many
\* rows as the table had before the run (N >= 0), each with is_return = 0.
C4_RowCountPreserved ==
    CommitDone =>
        /\ Cardinality(disk.main.rows) = Cardinality(pre.main.rows)
        /\ \A r \in disk.main.rows : r["is_return"] = 0

C4_Witness ==
    /\ CommitDone
    /\ pc = "returned"
    /\ Cardinality(pre.main.rows) = 2

\* C5: after a committed migration the rows of the table, restricted to
\* the columns that existed before, are exactly the pre-run rows.
C5_RowContentPreserved ==
    CommitDone =>
        /\ \A r \in disk.main.rows :
              Project(r, pre.main.cols) \in pre.main.rows
        /\ \A q \in pre.main.rows :
              Cardinality({ r \in disk.main.rows :
                              Project(r, pre.main.cols) = q }) = 1

C5_Witness ==
    /\ CommitDone
    /\ \E r \in disk.main.rows : r["document_type"] = "d2"
    /\ \E r \in disk.main.rows : r["document_type"] = "d1"

\* Two rows of the pre-run table agree on the columns of the new key.
DuplicateKey ==
    \E r1 \in pre.main.rows : \E r2 \in pre.main.rows :
        /\ r1 # r2
        /\ r1["posting_number"] = r2["posting_number"]
        /\ r1["sku"] = r2["sku"]
        /\ r1["operation_type"] = r2["operation_type"]

\* C6: when two source rows agree on the new primary key, the copy step
\* fails, the run returns 1 with the transaction rolled back, and the
\* committed database never shows the shadow table or any copied row.
C6_DuplicateKeyAbort ==
    (Unmigrated /\ DuplicateKey) =>
        /\ disk = pre
        /\ ~disk.shadow.exists \/ pre.shadow.exists
        /\ LogHas("copy") =>
              /\ failed = "copy"
              /\ pc \in {"except", "finally", "returned"}
              /\ view.shadow.rows = {}
        /\ (LogHas("copy") /\ pc = "returned") =>
              /\ result = 1
              /\ LogHas("rollback")
              /\ ~inTx
              /\ view = disk

C6_Witness ==
    /\ Unmigrated
    /\ DuplicateKey
    /\ pc = "returned"
    /\ failed = "copy"
    /\ result = 1

\* C7: when the table does not exist, the run returns 1 and never opens a
\* transaction, never prompts and never changes the database.
C7_MissingTable ==
    (~pre.main.exists /\ pc # "idle") =>
        /\ disk = pre
        /\ view = disk
        /\ ~inTx
        /\ ~LogHas("begin")
        /\ ~LogHas("prompt")
        /\ pc = "returned" => result = 1

C7_Witness ==
    /\ ~pre.main.exists
    /\ pc = "returned"
    /\ failed = "none"
    /\ conn = "closed"

\* The operator was asked and a line was read.
Answered == response # NoResponse /\ response # NoInput

\* The run ended at the prompt: it returned without a BEGIN.
StoppedAtGate == pc = "returned" /\ ~LogHas("begin")

\* C8 as stated: with N > 0 rows to migrate the run goes on to the
\* mutating steps exactly when the response is the text yes or the text y;
\* any other text ends the run with 0, no transaction and no change.
C8_ExactYesOnly ==
    Answered =>
        /\ ~StoppedAtGate <=> response \in { << "y", "e", "s" >>, << "y" >> }
        /\ StoppedAtGate => (result = 0 /\ disk = pre /\ ~inTx)

\* C8 amended: the run goes on exactly when the response, lower-cased, is
\* yes or y (so YES, Yes and Y proceed too); any other text ends the run
\* with 0, no transaction and no change.
C8_CaseInsensitiveYes ==
    Answered =>
        /\ ~StoppedAtGate
              <=> Lower(response) \in { << "y", "e", "s" >>, << "y" >> }
        /\ StoppedAtGate =>
              (result = 0 /\ disk = pre /\ view = disk /\ ~inTx)
        /\ count > 0 /\ Unmigrated

C8_Witness ==
    /\ response = << "Y", "E", "S" >>
    /\ pc = "create"
    /\ inTx

\* C9: when the prompt ends without a line of input, the run ends before
\* any mutation and returns 0.
C9_NoResponseDeclines ==
    (response = NoInput /\ pc = "returned") =>
        /\ result = 0
        /\ disk = pre
        /\ ~LogHas("begin")

\* The steps from BEGIN to COMMIT.
TransactionSteps == SwapSteps \cup {"begin", "commit"}

\* C10: on a non-empty table that needs the migration, BEGIN and every
\* mutating step come after the prompt was answered affirmatively, and
\* while the prompt is pending nothing has been changed.
C10_GateBeforeMutation ==
    (Unmigrated /\ pre.main.rows # {}) =>
        /\ \A i \in DOMAIN log :
              log[i] \in TransactionSteps =>
                 /\ \E j \in 1..(i - 1) : log[j] = "prompt"
                 /\ Answered
                 /\ Lower(response) \in { << "y", "e", "s" >>, << "y" >> }
        /\ (pc = "prompt" \/ ~LogHas("prompt")) =>
              (~inTx /\ view = pre /\ disk = pre)

C10_Witness ==
    /\ Unmigrated
    /\ Cardinality(pre.main.rows) = 1
    /\ pc = "drop"
    /\ view.shadow.rows # {}

\* Position of the first occurrence of a step in the log, 0 when absent.
FirstAt(step) ==
    IF LogHas(step)
    THEN CHOOSE i \in DOMAIN log :
            log[i] = step /\ \A j \in 1..(i - 1) : log[j] # step
    ELSE 0

\* C11: the comparison of the expected with the copied row count is
\* evaluated before the original table is dropped (hence before the
\* commit), and no run commits a table whose row count differs from the
\* expected count.
C11_VerifyBeforeDrop ==
    /\ LogHas("drop") =>
          (LogHas("compare") /\ FirstAt("compare") < FirstAt("drop"))
    /\ CommitDone => Cardinality(disk.main.rows) = count

\* The run took the already-migrated exit, l.39-42.
AlreadyMigratedExit ==
    /\ pc = "returned"
    /\ failed = "none"
    /\ "is_return" \in pre.main.cols
    /\ ~LogHas("count")

\* The operator declined, by a non-affirmative line or by no response.
DeclinedExit ==
    /\ pc = "returned"
    /\ LogHas("prompt")
    /\ ~LogHas("begin")

\* C12: a run returns 0 exactly when the migration was applied and
\* committed, the table was already migrated, or the operator declined;
\* it returns 1 on every fatal condition; nothing else is returned.
C12_ResultCodes ==
    pc = "returned" =>
        /\ result \in {0, 1}
        /\ result = 0 <=> (CommitDone \/ AlreadyMigratedExit \/ DeclinedExit)
        /\ (~pre.main.exists \/ failed # "none") => result = 1

\* C13: a run opens at most one transaction, opens it immediately before
\* the first mutating step, and has closed it by commit or rollback when
\* it returns; a fatal condition after the open always triggers the
\* rollback and leaves the original schema and data intact.
C13_ScopeRelease ==
    /\ Cardinality({ i \in DOMAIN log : log[i] = "begin" }) <= 1
    /\ \A i \in DOMAIN log :
          log[i] \in SwapSteps =>
             (LogHas("begin") /\ FirstAt("begin") < i
                /\ FirstAt("create") = FirstAt("begin") + 1)
    /\ pc = "returned" => (~inTx /\ view = disk)
    /\ (pc = "returned" /\ LogHas("begin") /\ failed # "none"
          /\ failed # "begin") =>
             (LogHas("rollback") /\ result = 1 /\ disk = pre)

\* C14 as stated: after a committed migration the primary key of the
\* table contains the pre-run primary key and the added column is_return.
C14_KeyHasNewColumn ==
    CommitDone =>
        /\ pre.main.pk \subseteq disk.main.pk
        /\ "is_return" \in disk.main.pk

\* C14 amended: after a committed migration the primary key of the table
\* is exactly (posting_number, sku, operation_type), whatever the pre-run
\* key was; is_return is a column of the table but not of its key.
C14_TargetKey ==
    CommitDone =>
        /\ disk.main.pk = {"posting_number", "sku", "operation_type"}
        /\ "is_return" \in disk.main.cols
        /\ "is_return" \notin disk.main.pk
        /\ ~ViolatesPrimaryKey(disk.main.rows, disk.main.pk)

C14_Witness ==
    /\ CommitDone
    /\ pc = "returned"
    /\ pre.main.pk = {"posting_number", "document_type"}
    /\ Cardinality(disk.main.rows) = 2

\* C15 as stated: the run creates two named indexes, and after a
\* committed migration both exist on the table.
C15_TwoIndexes ==
    CommitDone => Cardinality(disk.main.indexes) = 2

\* C15 amended: the run creates four named indexes (accrual_date,
\* posting_number, connection_mp_ref, posting_ref), each only if no index
\* of that name exists in the database; after a committed migration the
\* table has exactly those of the four whose name was not already taken
\* by another table, and every one of the four names exists.
C15_FourIndexes ==
    CommitDone =>
        /\ disk.main.indexes = AllIndexNames \ pre.others
        /\ disk.others = pre.others
        /\ AllIndexNames \subseteq (disk.main.indexes \cup disk.others)

C15_Witness ==
    /\ CommitDone
    /\ pre.others # {}
    /\ pre.main.indexes # {}
    /\ Cardinality(disk.main.indexes) = 3

\* C16 as stated: the creation of the indexes begins only after the swap
\* has been committed.
C16_IndexAfterCommit ==
    LogHas("index") =>
        (LogHas("commit") /\ FirstAt("commit") < FirstAt("index"))

\* C16 amended: the creation of the indexes begins only after drop and
\* rename have succeeded, inside the same transaction and before the
\* commit: while it runs the swap is still uncommitted, and the indexes
\* become visible together with the swap at the commit.
C16_IndexInsideTransaction ==
    /\ LogHas("index") =>
          /\ LogHas("rename") /\ FirstAt("rename") < FirstAt("index")
          /\ FirstAt("drop") < FirstAt("rename")
          /\ LogHas("commit") => FirstAt("index") < FirstAt("commit")
    /\ pc = "index" => (inTx /\ disk = pre /\ view.main.exists)
    /\ (LogHas("index") /\ ~CommitDone) => disk = pre

C16_Witness ==
    /\ pc = "commit"
    /\ inTx
    /\ view.main.indexes # {}
    /\ disk.main.indexes = {}
    /\ disk = pre

IsTransactionStep(step) == step \in TransactionSteps

\* The fixed order of the transactional steps.
StepOrder == << "begin", "create", "copy", "drop", "rename", "index",
                "commit" >>

\* C17: the transactional steps of a run occur in the order begin, create
\* shadow, copy, drop, rename, create indexes, commit, each at most once;
\* the commit is executed at most once and only when every step before it
\* succeeded.
C17_CommitOrdering ==
    LET steps == SelectSeq(log, IsTransactionStep)
    IN  /\ Len(steps) <= Len(StepOrder)
        /\ \A i \in DOMAIN steps : steps[i] = StepOrder[i]
        /\ LogHas("commit") =>
              /\ failed \in {"none", "commit", "final_count"}
              /\ Len(steps) = Len(StepOrder)
        /\ CommitDone =>
              (disk.main.exists /\ ~disk.shadow.exists
                 /\ "is_return" \in disk.main.cols)

C17_Witness ==
    /\ pc = "returned"
    /\ CommitDone
    /\ result = 0
    /\ SelectSeq(log, IsTransactionStep) = StepOrder

\* C18: the expected row count is captured after the transaction was
\* opened and before the shadow table is created, so that the prompt does
\* not lie between the capture and the copy.
C18_CountInsideTransaction ==
    LogHas("count") =>
        /\ LogHas("begin") /\ FirstAt("begin") < FirstAt("count")
        /\ LogHas("create") => FirstAt("count") < FirstAt("create")
        /\ LogHas("prompt") => FirstAt("prompt") < FirstAt("count")

\* C19: whenever a run returns 1 the committed database is the pre-run
\* one; no failure after the commit makes a run that applied the
\* migration return 1.
C19_FatalImpliesNoChange ==
    (pc = "returned" /\ result = 1) => (disk = pre /\ ~CommitDone)

\* C20: when a table of the shadow name exists as the run reaches the
\* create step, the step fails, the run rolls back and returns 1, and the
\* original table and that shadow-named table stay exactly as they were.
C20_LeftoverShadowKept ==
    pre.shadow.exists =>
        /\ disk = pre
        /\ LogHas("create") =>
              /\ failed = "create"
              /\ pc \in {"except", "finally", "returned"}
              /\ view.shadow = pre.shadow
              /\ view.main = pre.main
              /\ ~LogHas("copy") /\ ~LogHas("drop") /\ ~LogHas("rename")
        /\ (LogHas("create") /\ pc = "returned") =>
              (result = 1 /\ LogHas("rollback") /\ ~inTx)

C20_Witness ==
    /\ pre.shadow.exists
    /\ pre.main.rows # {}
    /\ failed = "create"
    /\ pc = "returned"
    /\ result = 1

\* C21: on every return path of main() after the connection was opened,
\* failures before the transaction included, the connection has been
\* closed exactly once when the run returns.
C21_ConnectionClosedOnce ==
    (pc = "returned" /\ conn # "none") => (conn = "closed" /\ closes = 1)

====
